---- MODULE Spec2Model ----
(***************************************************************************)
(* Model of the ingestion pipeline of gather_data.py: the SQLite tables,   *)
(* the Goodreads scrape into Adaptations, get_pending_titles, the two      *)
(* fetch/parse pairs (Google Books, OMDb), insert_adaptation and the       *)
(* load_batch loop, driven by main() (connect, scrape, one batch, close).  *)
(*                                                                         *)
(* A table is the sequence of its rows in rowid order; every table has an  *)
(* INTEGER PRIMARY KEY AUTOINCREMENT and no row is ever deleted, so the id *)
(* of a row is its position in the sequence.  Columns that no statement of *)
(* the pipeline reads back (source_url, authors, ratings_count,            *)
(* movie_count) are left out of the rows.  Ratings are kept in tenths.     *)
(***************************************************************************)
EXTENDS Integers, Sequences, FiniteSets, TLC

(***************************************************************************)
(* Bounds of the model.                                                    *)
(***************************************************************************)
\* largest max_new passed to load_batch
MaxNew == 2
\* min_count of scrape_adaptations_if_needed (300 in the program)
MinCount == 3
\* longest list of title links one scrape collects
MaxScraped == 3

Titles == {"A", "B", "C"}
\* SQL NULL / Python None in a text column
NullTitle == "NULL"
\* SQL NULL / Python None in a numeric column
NullNum == -1
OMDB_API_KEY == ""

Procs == {1, 2}
\* the process that runs main() in the sequential specification
Main == 1

VARIABLES
    db,                \* the committed content of final_project.db
    dirty,             \* dirty[p]: connection p has uncommitted writes
    tx,                \* tx[p]: the database as connection p sees it while dirty
    pc,                \* pc[p]: where process p is in main()/load_batch
    max_new,           \* load_batch argument
    candidate_titles,  \* load_batch local
    idx,               \* position of the for loop in candidate_titles
    inserted,          \* load_batch local
    gb_data,           \* load_batch local
    omdb_data,         \* load_batch local
    db0,               \* the committed database when load_batch was called
    usable,            \* titles of this batch for which both sources returned
                       \* an entry that has a title
    ignored,           \* INSERT OR IGNORE statements of the last scrape that
                       \* inserted no row (rowcount 0)
    step,              \* which function the function-level specifications
                       \* have applied
    raw_title,         \* clean_goodreads_title argument
    cleaned,           \* clean_goodreads_title result
    joined_data,       \* compute_preference_counts argument
    counts             \* compute_preference_counts result

\* the variables of main() and load_batch
mainVars == <<db, dirty, tx, pc, max_new, candidate_titles, idx, inserted,
              gb_data, omdb_data, db0, usable, ignored>>

\* the variables of the function-level specifications
funVars == <<step, raw_title, cleaned, joined_data, counts>>

vars == <<db, dirty, tx, pc, max_new, candidate_titles, idx, inserted,
          gb_data, omdb_data, db0, usable, ignored, step, raw_title, cleaned,
          joined_data, counts>>

(***************************************************************************)
(* Sequence helpers.                                                       *)
(***************************************************************************)
Range(s) == {s[i] : i \in 1..Len(s)}

Min(a, b) == IF a <= b THEN a ELSE b

SeqsUpTo(S, n) == UNION {[1..k -> S] : k \in 0..n}

RECURSIVE FilterSeq(_, _)
\* the subsequence of s whose elements are in the set keep
FilterSeq(s, keep) ==
    IF s = <<>> THEN <<>>
    ELSE IF Head(s) \in keep THEN <<Head(s)>> \o FilterSeq(Tail(s), keep)
    ELSE FilterSeq(Tail(s), keep)

\* LIMIT n of SQLite: a negative limit means no limit
Limit(s, n) == IF n < 0 THEN s ELSE SubSeq(s, 1, Min(n, Len(s)))

(***************************************************************************)
(* create_tables: the five tables, empty.                                  *)
(***************************************************************************)
EmptyDb ==
    [Adaptations |-> <<>>, Books |-> <<>>, Movies |-> <<>>,
     Book_Movie |-> <<>>, FailedTitles |-> <<>>]

BookTitles(d) == {d.Books[i].book_title : i \in 1..Len(d.Books)}
MovieTitles(d) == {d.Movies[i].movie_title : i \in 1..Len(d.Movies)}

\* a title column without UNIQUE: every INSERT adds a row
InsertOrIgnoreTitle_NoUnique(rows, title) == Append(rows, title)

\* INSERT OR IGNORE INTO Adaptations / FailedTitles: title is UNIQUE
InsertOrIgnoreTitle(rows, title) ==
    IF title /= NullTitle /\ title \in Range(rows) THEN rows
    ELSE Append(rows, title)

\* INSERT OR IGNORE INTO Books: book_title is UNIQUE
InsertOrIgnoreBook(d, book_data) ==
    IF book_data.book_title /= NullTitle /\ book_data.book_title \in BookTitles(d)
    THEN d
    ELSE [d EXCEPT !.Books = Append(@, [book_title |-> book_data.book_title,
                                        book_rating |-> book_data.book_rating])]

\* an upsert: a conflicting insert overwrites the rating of the stored row
InsertOrIgnoreMovie_Upsert(d, movie_data) ==
    IF movie_data.movie_title /= NullTitle /\ movie_data.movie_title \in MovieTitles(d)
    THEN [d EXCEPT !.Movies =
            [j \in 1..Len(@) |->
                IF @[j].movie_title = movie_data.movie_title
                THEN [@[j] EXCEPT !.movie_rating = movie_data.movie_rating]
                ELSE @[j]]]
    ELSE [d EXCEPT !.Movies = Append(@, [movie_title |-> movie_data.movie_title,
                                         movie_rating |-> movie_data.movie_rating])]

\* INSERT OR IGNORE INTO Movies: movie_title is UNIQUE, NULLs never conflict
InsertOrIgnoreMovie(d, movie_data) ==
    IF movie_data.movie_title /= NullTitle /\ movie_data.movie_title \in MovieTitles(d)
    THEN d
    ELSE [d EXCEPT !.Movies = Append(@, [movie_title |-> movie_data.movie_title,
                                         movie_rating |-> movie_data.movie_rating])]

\* SELECT book_id FROM Books WHERE book_title = ?  (0 when fetchone() is None)
SelectBookId(d, title) ==
    IF title /= NullTitle /\ title \in BookTitles(d)
    THEN CHOOSE i \in 1..Len(d.Books) : d.Books[i].book_title = title
    ELSE 0

\* SELECT movie_id FROM Movies WHERE movie_title = ?  (0 when fetchone() is None)
SelectMovieId(d, title) ==
    IF title /= NullTitle /\ title \in MovieTitles(d)
    THEN CHOOSE i \in 1..Len(d.Movies) : d.Movies[i].movie_title = title
    ELSE 0

\* INSERT OR IGNORE INTO Book_Movie: only matching_id is constrained
InsertLink(d, book_id, movie_id) ==
    [d EXCEPT !.Book_Movie = Append(@, [book_id |-> book_id, movie_id |-> movie_id])]

\* INSERT OR IGNORE INTO FailedTitles (title) VALUES (scraped_title)
MarkFailed(d, scraped_title) ==
    [d EXCEPT !.FailedTitles = InsertOrIgnoreTitle(@, scraped_title)]

(***************************************************************************)
(* get_pending_titles: the titles of Adaptations, in the order of the scan, *)
(* that join to no Books row, no Movies row and no FailedTitles row.       *)
(***************************************************************************)
\* a WHERE clause that forgets the Books join
IsPending_IgnoresBooks(d, title) ==
    /\ title \notin MovieTitles(d)
    /\ title \notin Range(d.FailedTitles)

\* a WHERE clause that forgets the FailedTitles join
IsPending_IgnoresFailed(d, title) ==
    /\ title \notin BookTitles(d)
    /\ title \notin MovieTitles(d)

IsPending(d, title) ==
    /\ title \notin BookTitles(d)
    /\ title \notin MovieTitles(d)
    /\ title \notin Range(d.FailedTitles)

\* the titles in the order of the BINARY collation of the title column
TitleOrder == <<"A", "B", "C">>

\* a scan of the table itself, in rowid order
ScanAdaptations_ByRowid(d) == d.Adaptations

\* The SELECT has no ORDER BY.  SQLite reads A.title from the index of
\* UNIQUE(title), which covers the query (SCAN A USING COVERING INDEX
\* sqlite_autoindex_Adaptations_1), so the rows come in ascending title
\* order, whatever their rowid.
ScanAdaptations(d) == FilterSeq(TitleOrder, Range(d.Adaptations))

get_pending_titles(d, limit) ==
    Limit(FilterSeq(ScanAdaptations(d), {t \in Range(d.Adaptations) : IsPending(d, t)}),
          limit)

(***************************************************************************)
(* scrape_adaptations_if_needed: the insert loop over scraped_titles.      *)
(***************************************************************************)
RECURSIVE InsertScraped(_, _, _, _, _)
InsertScraped(rows, scraped_titles, current_count, n, min_count) ==
    IF scraped_titles = <<>> \/ current_count + n >= min_count THEN rows
    ELSE LET rows1 == InsertOrIgnoreTitle(rows, Head(scraped_titles))
             n1 == IF Len(rows1) > Len(rows) THEN n + 1 ELSE n
         IN InsertScraped(rows1, Tail(scraped_titles), current_count, n1, min_count)

RECURSIVE IgnoredInserts(_, _, _)
\* how many INSERT OR IGNORE statements of the insert loop have rowcount 0
IgnoredInserts(rows, scraped_titles, min_count) ==
    IF scraped_titles = <<>> \/ Len(rows) >= min_count THEN 0
    ELSE LET rows1 == InsertOrIgnoreTitle(rows, Head(scraped_titles))
         IN (IF Len(rows1) > Len(rows) THEN 0 ELSE 1)
            + IgnoredInserts(rows1, Tail(scraped_titles), min_count)

scrape_adaptations_if_needed(d, scraped_titles, min_count) ==
    LET current_count == Len(d.Adaptations)
    IN IF current_count >= min_count THEN d
       ELSE [d EXCEPT !.Adaptations =
                InsertScraped(@, scraped_titles, current_count, 0, min_count)]

(***************************************************************************)
(* The HTTP exchange with Google Books and what the two functions make of  *)
(* it.  kind is how the request ended: a requests.RequestException         *)
(* (connection error, timeout, HTTP error status), a body that is not      *)
(* JSON, or a body that is JSON null, a JSON array or a JSON object.       *)
(***************************************************************************)
\* averageRating of the volumes, in tenths.  A volume without averageRating
\* is stored like any other (book_rating NULL); the analysis specification
\* below exercises the absent ratings.
VolumeRatings == {42}

GBResponses ==
    {[kind |-> k, items |-> "absent", title |-> NullTitle, rating |-> NullNum] :
        k \in {"RequestException", "JSONDecodeError", "null", "array"}}
    \cup {[kind |-> "object", items |-> i, title |-> NullTitle, rating |-> NullNum] :
        i \in {"absent", "empty"}}
    \cup {[kind |-> "object", items |-> "list", title |-> t, rating |-> r] :
        t \in {NullTitle, "", "Vol"}, r \in VolumeRatings}

PyNone == [kind |-> "None", items |-> "absent", title |-> NullTitle, rating |-> NullNum]

fetch_google_books_raw(resp) ==
    IF resp.kind \in {"RequestException", "JSONDecodeError"} THEN PyNone
    ELSE IF resp.kind = "null" THEN PyNone
    ELSE resp

NoBook == [res |-> "None", book_title |-> NullTitle, book_rating |-> NullNum]

\* res is "None", "dict", or the exception that leaves the function
parse_google_books_entry(raw_json) ==
    IF raw_json.kind = "None" THEN NoBook
    ELSE IF raw_json.kind = "array" THEN [NoBook EXCEPT !.res = "AttributeError"]
    ELSE IF raw_json.items \in {"absent", "empty"} THEN NoBook
    ELSE IF raw_json.title \in {NullTitle, ""} THEN NoBook
    ELSE [res |-> "dict", book_title |-> raw_json.title, book_rating |-> raw_json.rating]

(***************************************************************************)
(* The same for OMDb.  Response, Title and imdbRating are the fields of    *)
(* the JSON object; "" stands for an absent or empty imdbRating.           *)
(***************************************************************************)
OmdbResponses ==
    {[kind |-> k, Response |-> "False", Title |-> NullTitle, imdbRating |-> ""] :
        k \in {"RequestException", "JSONDecodeError", "null", "array"}}
    \cup {[kind |-> "object", Response |-> "False", Title |-> NullTitle, imdbRating |-> ""]}
    \cup {[kind |-> "object", Response |-> "True", Title |-> t, imdbRating |-> r] :
        t \in Titles \cup {NullTitle}, r \in {"", "N/A", "8.4", "high"}}

PyNoneOmdb == [kind |-> "None", Response |-> "False", Title |-> NullTitle, imdbRating |-> ""]

fetch_omdb_raw(resp) ==
    IF OMDB_API_KEY = "YOUR_OMDB_API_KEY_HERE" THEN PyNoneOmdb
    ELSE IF resp.kind \in {"RequestException", "JSONDecodeError"} THEN PyNoneOmdb
    ELSE IF resp.kind = "null" THEN PyNoneOmdb
    ELSE resp

\* float(imdb_rating_str), in tenths; NullNum where float() raises ValueError
ParseFloat(str) == IF str = "8.4" THEN 84 ELSE NullNum

NoMovie == [res |-> "None", movie_title |-> NullTitle, movie_rating |-> NullNum]

parse_omdb_entry(raw_json) ==
    IF raw_json.kind = "None" THEN NoMovie
    ELSE IF raw_json.kind = "array" THEN [NoMovie EXCEPT !.res = "AttributeError"]
    ELSE IF raw_json.Response /= "True" THEN NoMovie
    ELSE [res |-> "dict",
          movie_title |-> raw_json.Title,
          movie_rating |-> IF raw_json.imdbRating /= "" /\ raw_json.imdbRating /= "N/A"
                           THEN ParseFloat(raw_json.imdbRating)
                           ELSE NullNum]

(***************************************************************************)
(* insert_adaptation: the database the connection sees afterwards and      *)
(* whether conn.commit() was reached.                                      *)
(***************************************************************************)
insert_adaptation(d, book_data, movie_data) ==
    LET d1 == InsertOrIgnoreBook(d, book_data)
        book_id == SelectBookId(d1, book_data.book_title)
        d2 == InsertOrIgnoreMovie(d1, movie_data)
        movie_id == SelectMovieId(d2, movie_data.movie_title)
    IN IF book_id = 0 THEN [d |-> d1, committed |-> FALSE]
       ELSE IF movie_id = 0 THEN [d |-> d2, committed |-> FALSE]
       ELSE [d |-> InsertLink(d2, book_id, movie_id), committed |-> TRUE]

(***************************************************************************)
(* State of a run of main().                                               *)
(***************************************************************************)
\* what the statements of connection p read
View(p) == IF dirty[p] THEN tx[p] ELSE db

\* a limit of three times max_new
CandidateLimit_Triple(mx) == mx * 3

\* candidate_titles = get_pending_titles(conn, max_new * 2)
CandidateLimit(mx) == mx * 2

\* a break test that lets one more success through
BudgetReached_OffByOne(n, mx) == n > mx

\* if inserted >= max_new: break
BudgetReached(n, mx) == n >= mx

\* the for loop of load_batch is over: list exhausted, or break
LoopOver(p) ==
    \/ idx[p] > Len(candidate_titles[p])
    \/ BudgetReached(inserted[p], max_new[p])

scraped_title(p) == candidate_titles[p][idx[p]]

\* gb_data["book_title"] = scraped_title
OverrideTitle(book_data, title) == [book_data EXCEPT !.book_title = title]

\* the writes of the "no valid Google Books data" branch, before its commit
OnNoBookData(d, title) == MarkFailed(d, title)

\* a branch that stores the fetched book before marking the title failed
OnNoOmdbData_KeepsBook(d, book_data, title) ==
    MarkFailed(InsertOrIgnoreBook(d, book_data), title)

\* the writes of the "no valid OMDb data" branch, before its commit
OnNoOmdbData(d, book_data, title) == MarkFailed(d, title)

InitMain ==
    /\ db = EmptyDb
    /\ dirty = [p \in Procs |-> FALSE]
    /\ tx = [p \in Procs |-> EmptyDb]
    /\ pc = [p \in Procs |-> "closed"]
    /\ max_new = [p \in Procs |-> 0]
    /\ candidate_titles = [p \in Procs |-> <<>>]
    /\ idx = [p \in Procs |-> 1]
    /\ inserted = [p \in Procs |-> 0]
    /\ gb_data = [p \in Procs |-> NoBook]
    /\ omdb_data = [p \in Procs |-> NoMovie]
    /\ db0 = [p \in Procs |-> EmptyDb]
    /\ usable = [p \in Procs |-> {}]
    /\ ignored = [p \in Procs |-> 0]

\* the function-level variables while main() runs
FunIdle ==
    /\ step = "main"
    /\ raw_title = <<>>
    /\ cleaned = <<>>
    /\ joined_data = <<>>
    /\ counts = <<0, 0, 0, 0>>

Init == InitMain /\ FunIdle

\* another connection holds the write lock of the database file: it has
\* written and not yet committed or closed
LockedOut(p) == \E q \in Procs \ {p} : dirty[q]

\* conn.commit() of connection p, whose view is d
Commit(p, d) ==
    /\ ~LockedOut(p)
    /\ db' = d
    /\ dirty' = [dirty EXCEPT ![p] = FALSE]
    /\ tx' = [tx EXCEPT ![p] = EmptyDb]

\* statements of connection p leave the view d, not committed
Write(p, d) ==
    /\ ~LockedOut(p)
    /\ db' = db
    /\ dirty' = [dirty EXCEPT ![p] = TRUE]
    /\ tx' = [tx EXCEPT ![p] = d]

\* main: create_connection() and create_tables(conn)
Connect(p) ==
    /\ pc[p] = "closed"
    /\ pc' = [pc EXCEPT ![p] = "connected"]
    /\ UNCHANGED <<db, dirty, tx, max_new, candidate_titles, idx, inserted,
                   gb_data, omdb_data, db0, usable>>
    /\ UNCHANGED <<ignored, funVars>>

\* main: scrape_adaptations_if_needed(conn, min_count=minimumcount)
Scrape(p) ==
    /\ pc[p] = "connected"
    /\ \E scraped_titles \in SeqsUpTo(Titles, MaxScraped) :
          /\ Commit(p, scrape_adaptations_if_needed(View(p), scraped_titles, MinCount))
          /\ ignored' = [ignored EXCEPT ![p] =
                IgnoredInserts(View(p).Adaptations, scraped_titles, MinCount)]
    /\ pc' = [pc EXCEPT ![p] = "ready"]
    /\ UNCHANGED <<max_new, candidate_titles, idx, inserted, gb_data, omdb_data,
                   db0, usable>>
    /\ UNCHANGED funVars

\* load_batch, up to the first test of the loop
StartBatch(p) ==
    /\ pc[p] = "ready"
    /\ \E mx \in 0..MaxNew :
          /\ max_new' = [max_new EXCEPT ![p] = mx]
          /\ candidate_titles' =
                [candidate_titles EXCEPT ![p] = get_pending_titles(View(p), CandidateLimit(mx))]
    /\ inserted' = [inserted EXCEPT ![p] = 0]
    /\ idx' = [idx EXCEPT ![p] = 1]
    /\ db0' = [db0 EXCEPT ![p] = db]
    /\ usable' = [usable EXCEPT ![p] = {}]
    /\ pc' = [pc EXCEPT ![p] = "loop"]
    /\ UNCHANGED <<db, dirty, tx, gb_data, omdb_data>>
    /\ ignored' = [ignored EXCEPT ![p] = 0]
    /\ UNCHANGED funVars

\* load_batch: fetch_google_books_raw, parse_google_books_entry and the
\* branch on gb_data is None
GoogleBooksStep(p) ==
    /\ pc[p] = "loop"
    /\ ~LoopOver(p)
    /\ \E resp \in GBResponses :
          LET data == parse_google_books_entry(fetch_google_books_raw(resp))
          IN IF data.res = "AttributeError"
             THEN /\ pc' = [pc EXCEPT ![p] = "raised"]
                  /\ UNCHANGED <<db, dirty, tx, idx, gb_data>>
             ELSE IF data.res = "None"
             THEN /\ Commit(p, OnNoBookData(View(p), scraped_title(p)))
                  /\ gb_data' = [gb_data EXCEPT ![p] = data]
                  /\ idx' = [idx EXCEPT ![p] = @ + 1]
                  /\ UNCHANGED pc
             ELSE /\ gb_data' = [gb_data EXCEPT ![p] = OverrideTitle(data, scraped_title(p))]
                  /\ pc' = [pc EXCEPT ![p] = "omdb"]
                  /\ UNCHANGED <<db, dirty, tx, idx>>
    /\ UNCHANGED <<max_new, candidate_titles, inserted, omdb_data, db0, usable>>
    /\ UNCHANGED <<ignored, funVars>>

\* load_batch: fetch_omdb_raw, parse_omdb_entry and the branch on
\* omdb_data is None
OmdbStep(p) ==
    /\ pc[p] = "omdb"
    /\ \E resp \in OmdbResponses :
          LET data == parse_omdb_entry(fetch_omdb_raw(resp))
          IN IF data.res = "AttributeError"
             THEN /\ pc' = [pc EXCEPT ![p] = "raised"]
                  /\ UNCHANGED <<db, dirty, tx, idx, omdb_data, usable>>
             ELSE IF data.res = "None"
             THEN /\ Commit(p, OnNoOmdbData(View(p), gb_data[p], scraped_title(p)))
                  /\ omdb_data' = [omdb_data EXCEPT ![p] = data]
                  /\ idx' = [idx EXCEPT ![p] = @ + 1]
                  /\ pc' = [pc EXCEPT ![p] = "loop"]
                  /\ UNCHANGED usable
             ELSE /\ omdb_data' = [omdb_data EXCEPT ![p] = data]
                  /\ usable' = [usable EXCEPT ![p] =
                        IF data.movie_title = NullTitle THEN @
                        ELSE @ \cup {scraped_title(p)}]
                  /\ pc' = [pc EXCEPT ![p] = "insert"]
                  /\ UNCHANGED <<db, dirty, tx, idx>>
    /\ UNCHANGED <<max_new, candidate_titles, inserted, gb_data, db0>>
    /\ UNCHANGED <<ignored, funVars>>

\* load_batch: insert_adaptation(conn, gb_data, omdb_data); inserted = inserted + 1
InsertStep(p) ==
    /\ pc[p] = "insert"
    /\ LET r == insert_adaptation(View(p), gb_data[p], omdb_data[p])
       IN IF r.committed THEN Commit(p, r.d) ELSE Write(p, r.d)
    /\ inserted' = [inserted EXCEPT ![p] = @ + 1]
    /\ idx' = [idx EXCEPT ![p] = @ + 1]
    /\ pc' = [pc EXCEPT ![p] = "loop"]
    /\ UNCHANGED <<max_new, candidate_titles, gb_data, omdb_data, db0, usable>>
    /\ UNCHANGED <<ignored, funVars>>

\* load_batch: the loop ends and the function returns
FinishBatch(p) ==
    /\ pc[p] = "loop"
    /\ LoopOver(p)
    /\ pc' = [pc EXCEPT ![p] = "done"]
    /\ UNCHANGED <<db, dirty, tx, max_new, candidate_titles, idx, inserted,
                   gb_data, omdb_data, db0, usable>>
    /\ UNCHANGED <<ignored, funVars>>

\* the locals of load_batch are gone once main() is over
ForgetLocals(p) ==
    /\ max_new' = [max_new EXCEPT ![p] = 0]
    /\ candidate_titles' = [candidate_titles EXCEPT ![p] = <<>>]
    /\ idx' = [idx EXCEPT ![p] = 1]
    /\ inserted' = [inserted EXCEPT ![p] = 0]
    /\ gb_data' = [gb_data EXCEPT ![p] = NoBook]
    /\ omdb_data' = [omdb_data EXCEPT ![p] = NoMovie]
    /\ db0' = [db0 EXCEPT ![p] = EmptyDb]
    /\ usable' = [usable EXCEPT ![p] = {}]

\* main: conn.close(); writes that were not committed are rolled back
Close(p) ==
    /\ pc[p] = "done"
    /\ pc' = [pc EXCEPT ![p] = "closed"]
    /\ dirty' = [dirty EXCEPT ![p] = FALSE]
    /\ tx' = [tx EXCEPT ![p] = EmptyDb]
    /\ ForgetLocals(p)
    /\ UNCHANGED db
    /\ UNCHANGED <<ignored, funVars>>

\* the exception leaves main(): the process ends, its connection is dropped
\* and writes that were not committed are rolled back
Exit(p) ==
    /\ pc[p] = "raised"
    /\ pc' = [pc EXCEPT ![p] = "closed"]
    /\ dirty' = [dirty EXCEPT ![p] = FALSE]
    /\ tx' = [tx EXCEPT ![p] = EmptyDb]
    /\ ForgetLocals(p)
    /\ UNCHANGED db
    /\ UNCHANGED <<ignored, funVars>>

Next ==
    \/ Connect(Main)
    \/ Scrape(Main)
    \/ StartBatch(Main)
    \/ GoogleBooksStep(Main)
    \/ OmdbStep(Main)
    \/ InsertStep(Main)
    \/ FinishBatch(Main)
    \/ Close(Main)
    \/ Exit(Main)

Spec == Init /\ [][Next]_vars

TypeOK ==
    /\ pc \in [Procs -> {"closed", "connected", "ready", "loop", "omdb", "insert",
                         "done", "raised"}]
    /\ max_new \in [Procs -> 0..MaxNew]
    /\ \A p \in Procs : inserted[p] \in 0..MaxNew /\ idx[p] \in 1..(Len(candidate_titles[p]) + 1)

(***************************************************************************)
(* What one invocation of load_batch has done so far.                      *)
(***************************************************************************)
InBatch(p) == pc[p] \in {"loop", "omdb", "insert", "done", "raised"}

\* Book_Movie rows committed since load_batch was called
NewPairs(p) == Len(db.Book_Movie) - Len(db0[p].Book_Movie)

\* Books rows committed since load_batch was called
NewBooks(p) == Len(db.Books) - Len(db0[p].Books)

\* candidates for which load_batch has called an external source
Attempted(p) ==
    (idx[p] - 1) + (IF pc[p] \in {"omdb", "insert", "raised"} THEN 1 ELSE 0)

AttemptedTitles(p) ==
    {candidate_titles[p][i] : i \in 1..Min(Attempted(p), Len(candidate_titles[p]))}

\* the candidate the loop has just finished with
LastTitle(p) == candidate_titles[p][idx[p] - 1]

\* C1: one invocation of load_batch(conn, max_new) commits at most max_new
\* new (Book, Movie) pairs, whatever the pending set and the sources' answers
C1_AtMostMaxNewCommitted ==
    InBatch(Main) =>
        /\ NewPairs(Main) <= max_new[Main]
        /\ NewBooks(Main) <= max_new[Main]
        /\ inserted[Main] <= max_new[Main]

\* the loop broke on the budget with candidates left over
C1_Witness ==
    /\ pc[Main] = "done"
    /\ max_new[Main] >= 1
    /\ NewPairs(Main) = max_new[Main]
    /\ idx[Main] <= Len(candidate_titles[Main])

\* every candidate attempted so far got a titled entry from both sources
AllUsable(p) == usable[p] = AttemptedTitles(p)

\* the number of titles pending when load_batch was called
PendingAtCall(p) == Len(get_pending_titles(db0[p], -1))

\* C2: with P titles pending and usable data from both sources for every
\* candidate, load_batch commits exactly min(max_new, P) new pairs and
\* leaves exactly P - min(max_new, P) titles pending
C2_ExactBudget ==
    (pc[Main] = "done" /\ AllUsable(Main)) =>
        LET P == PendingAtCall(Main)
            n == Min(max_new[Main], P)
        IN /\ NewPairs(Main) = n
           /\ Len(get_pending_titles(View(Main), -1)) = P - n

\* C3 as stated: load_batch attempts at most max_new candidates
C3_AtMostMaxNewAttempted ==
    InBatch(Main) => Attempted(Main) <= max_new[Main]

\* C3: one invocation of load_batch attempts enrichment for at most
\* 2 * max_new candidates, whatever mix of successes and failures occurs
C3_AtMostTwiceMaxNewAttempted ==
    InBatch(Main) => Attempted(Main) <= 2 * max_new[Main]

\* a batch that ended after attempting 2 * max_new candidates
C3_Witness ==
    /\ pc[Main] = "done"
    /\ max_new[Main] >= 1
    /\ Attempted(Main) = 2 * max_new[Main]

\* the last candidate got book data and no movie data
MovieFailedLast(p) ==
    /\ pc[p] \in {"loop", "done"}
    /\ idx[p] > 1
    /\ gb_data[p].res = "dict"
    /\ gb_data[p].book_title = LastTitle(p)
    /\ omdb_data[p].res = "None"

\* C4: when Google Books gives a usable entry for a candidate and OMDb gives
\* none, after the attempt the candidate is in FailedTitles and no Books row
\* with its title exists, committed or not
C4_AllOrNothingOnMovieFailure ==
    MovieFailedLast(Main) =>
        /\ LastTitle(Main) \in Range(db.FailedTitles)
        /\ LastTitle(Main) \notin BookTitles(db)
        /\ LastTitle(Main) \notin BookTitles(View(Main))

\* a candidate whose book was fetched with a rating and whose movie failed
C4_Witness ==
    /\ MovieFailedLast(Main)
    /\ gb_data[Main].book_rating /= NullNum
    /\ LastTitle(Main) \in Range(db.FailedTitles)

(***************************************************************************)
(* The outcome of a title, read from the tables.                           *)
(***************************************************************************)
Failed(d, title) == title \in Range(d.FailedTitles)

\* the Books row of the title is linked by Book_Movie to a Movies row
HasLinkedMovie(d, title) ==
    \E k \in 1..Len(d.Book_Movie) :
        /\ d.Book_Movie[k].book_id \in 1..Len(d.Books)
        /\ d.Books[d.Book_Movie[k].book_id].book_title = title
        /\ d.Book_Movie[k].movie_id \in 1..Len(d.Movies)

\* the title has a Books row and a Movies row, found by link or by title
FullyEnriched(d, title) ==
    /\ title \in BookTitles(d)
    /\ (HasLinkedMovie(d, title) \/ title \in MovieTitles(d))

\* no load_batch is running
BetweenBatches(p) == pc[p] \in {"done", "closed", "connected", "ready"}

\* C5: after every completed load_batch no stored record is left without
\* its counterpart: every Books row of a title that is not marked failed is
\* linked to a Movies row, and every Movies row is linked to a Books row
C5_NoHalfStoredTitle ==
    BetweenBatches(Main) =>
        /\ \A i \in 1..Len(db.Books) :
              \/ Failed(db, db.Books[i].book_title)
              \/ HasLinkedMovie(db, db.Books[i].book_title)
        /\ \A j \in 1..Len(db.Movies) :
              \E k \in 1..Len(db.Book_Movie) : db.Book_Movie[k].movie_id = j

\* C6: in every state reachable by sequential load_batch runs, no title is
\* both fully enriched (a Books row and a Movies row) and in FailedTitles,
\* in the committed database and in what the connection sees
C6_NeverEnrichedAndFailed ==
    \A t \in Titles :
        /\ ~(FullyEnriched(db, t) /\ Failed(db, t))
        /\ ~(FullyEnriched(View(Main), t) /\ Failed(View(Main), t))

\* after two or more runs one title is enriched and another is failed
C6_Witness ==
    /\ pc[Main] = "closed"
    /\ \E t \in Titles : FullyEnriched(db, t) /\ HasLinkedMovie(db, t)
    /\ \E t \in Titles : Failed(db, t)
    /\ Len(db.Books) >= 2

\* registered titles with no Books row of their own and no failure entry,
\* in the order in which get_pending_titles scans Adaptations
Unsettled(d) ==
    FilterSeq(ScanAdaptations(d),
              {t \in Range(d.Adaptations) : t \notin BookTitles(d) /\ ~Failed(d, t)})

\* C7: every registered title with neither a stored record of its own nor
\* a failure entry is returned by get_pending_titles(conn, limit) for every
\* limit at or beyond its position among such titles
C7_PendingComplete ==
    BetweenBatches(Main) =>
        \A d \in {db, View(Main)} :
            \A i \in 1..Len(Unsettled(d)) :
                \A limit \in i..Len(d.Adaptations) :
                    Unsettled(d)[i] \in Range(get_pending_titles(d, limit))

\* the database d holds a failure entry or both records of the title
HasOutcome(d, title) == Failed(d, title) \/ FullyEnriched(d, title)

\* what the statements of the connection read in the next state
ViewNext == IF dirty'[Main] THEN tx'[Main] ELSE db'

\* in the next state load_batch is about to call, or is between the calls
\* of, the sources for the title
CallingNext(title) ==
    \/ /\ pc'[Main] = "loop"
       /\ idx'[Main] <= Len(candidate_titles'[Main])
       /\ ~BudgetReached(inserted'[Main], max_new'[Main])
       /\ candidate_titles'[Main][idx'[Main]] = title
    \/ /\ pc'[Main] \in {"omdb", "insert"}
       /\ candidate_titles'[Main][idx'[Main]] = title

\* C8: once the database holds a FailedTitles entry or both records of a
\* title, it keeps that outcome, no later get_pending_titles call returns
\* the title and no later load_batch calls an external source for it
C8_OutcomesTerminal ==
    [][\A t \in Titles :
          HasOutcome(db, t) =>
              /\ HasOutcome(db', t)
              /\ t \notin Range(get_pending_titles(ViewNext, -1))
              /\ ~CallingNext(t)]_vars

\* a later run selects candidates while an earlier title is failed and
\* another is enriched
C8_Witness ==
    /\ pc[Main] = "loop"
    /\ Len(candidate_titles[Main]) >= 1
    /\ \E t \in Titles : Failed(db0[Main], t)
    /\ \E t \in Titles : FullyEnriched(db0[Main], t)

\* the Books row of the title is linked to a Movies row: a complete pair
CompletePair(d, title) == title \in BookTitles(d) /\ HasLinkedMovie(d, title)

\* C9: after a load_batch that reached every candidate, the store holds a
\* complete (Book, Movie) pair for exactly the candidates for which both
\* sources returned usable data, and FailedTitles holds exactly the others
C9_OutcomePartition ==
    (pc[Main] = "done" /\ idx[Main] > Len(candidate_titles[Main])) =>
        \A t \in Range(candidate_titles[Main]) :
            /\ CompletePair(db, t) <=> t \in usable[Main]
            /\ Failed(db, t) <=> t \notin usable[Main]

\* C10: no source-level failure escapes load_batch: no exception leaves
\* it, and a candidate for which a source gave no usable entry is in
\* FailedTitles when the loop moves on
C10_SourceFailuresAbsorbed ==
    /\ pc[Main] /= "raised"
    /\ (pc[Main] \in {"loop", "done"} /\ idx[Main] > 1 /\ LastTitle(Main) \notin usable[Main])
          => Failed(db, LastTitle(Main))

(***************************************************************************)
(* The registry of titles (Adaptations) and the stored rows.               *)
(***************************************************************************)
\* s is an initial part of t: the rows of s are in t with the same ids
IsPrefix(s, t) ==
    /\ Len(s) <= Len(t)
    /\ \A i \in 1..Len(s) : s[i] = t[i]

\* no value is in two rows
NoDuplicates(s) == \A i, j \in 1..Len(s) : s[i] = s[j] => i = j

\* C11: registering a title that Adaptations already holds changes nothing
\* (the rows and their ids stay, the table does not grow) and raises nothing:
\* the scrape ends normally, keeps every existing row where it was, and
\* Adaptations.title is unique after every registration.
C11_RegistryIdempotent ==
    [][/\ IsPrefix(db.Adaptations, db'.Adaptations)
       /\ NoDuplicates(db'.Adaptations)
       /\ \A t \in Range(db'.Adaptations) :
             InsertOrIgnoreTitle(db'.Adaptations, t) = db'.Adaptations
       /\ pc[Main] = "connected" => pc'[Main] = "ready"]_vars

\* a scrape that offered registered titles again has ended
C11_Witness ==
    /\ pc[Main] = "ready"
    /\ ignored[Main] > 0
    /\ Len(db.Adaptations) >= 2

\* insert_adaptation has just stored the complete pair of the last candidate
\* from gb_data and omdb_data
StoredLast ==
    /\ pc[Main] = "loop"
    /\ idx[Main] > 1
    /\ ~dirty[Main]
    /\ gb_data[Main].res = "dict"
    /\ omdb_data[Main].res = "dict"
    /\ gb_data[Main].book_title = LastTitle(Main)
    /\ omdb_data[Main].movie_title /= NullTitle

\* C12: invoking insert_adaptation again with the book and movie data it has
\* just stored, or the FailedTitles insert again with a title that is
\* already marked failed, leaves every table as it is: no new row, no error
C12_StoreIdempotent ==
    /\ StoredLast =>
          insert_adaptation(db, gb_data[Main], omdb_data[Main]).d = db
    /\ \A t \in Range(db.FailedTitles) : MarkFailed(db, t) = db

(***************************************************************************)
(* clean_goodreads_title.  A string is the sequence of its characters.     *)
(***************************************************************************)
MaxTitleLen == 6

\* a letter, whitespace, the parentheses, the series marker and a digit
Chars == {"T", " ", "(", ")", "#", "1"}

\* \d
Digits == {"0", "1", "2", "3", "4", "5", "6", "7", "8", "9"}

\* how many of s[a..b] are the character c
Count(s, a, b, c) == Cardinality({i \in a..b : s[i] = c})

\* every ")" closes an earlier "(" and every "(" is closed
Balanced(s) ==
    /\ Count(s, 1, Len(s), "(") = Count(s, 1, Len(s), ")")
    /\ \A i \in 1..Len(s) : Count(s, 1, i, "(") >= Count(s, 1, i, ")")

\* the docstring's example and a title without parentheses
HungerGames ==
    <<"T", "h", "e", " ", "H", "u", "n", "g", "e", "r", " ", "G", "a", "m",
      "e", "s", " ", "(", "T", "h", "e", " ", "H", "u", "n", "g", "e", "r",
      " ", "G", "a", "m", "e", "s", ",", " ", "#", "1", ")">>

HungerGamesCleaned ==
    <<"T", "h", "e", " ", "H", "u", "n", "g", "e", "r", " ", "G", "a", "m",
      "e", "s">>

PlainTitle ==
    <<"P", "l", "a", "i", "n", " ", "T", "i", "t", "l", "e">>

\* raw_title = link.get_text(strip=True), skipped when empty: the link texts
\* are stripped and not empty; their parentheses are balanced
RawTitles ==
    {s \in UNION {[1..n -> Chars] : n \in 1..MaxTitleLen} :
        s[1] /= " " /\ s[Len(s)] /= " " /\ Balanced(s)}
    \cup {HungerGames, PlainTitle}

\* str.strip()
strip(s) ==
    LET kept == {i \in 1..Len(s) : s[i] /= " "}
    IN IF kept = {} THEN <<>>
       ELSE SubSeq(s, CHOOSE i \in kept : \A j \in kept : i <= j,
                      CHOOSE i \in kept : \A j \in kept : i >= j)

\* s[i+1..] is matched by group 2, \s*\(.*?#\d+.*\), up to the end of s
MatchesGroup2(s, i) ==
    \E j \in (i + 1)..Len(s) :
        /\ \A m \in (i + 1)..(j - 1) : s[m] = " "
        /\ s[j] = "("
        /\ s[Len(s)] = ")"
        /\ \E h \in (j + 1)..(Len(s) - 2) : s[h] = "#" /\ s[h + 1] \in Digits

\* re.match(r"^(.*?)(\s*\(.*?#\d+.*\))$", title): group 1 is lazy, so it is
\* the shortest beginning of the title that group 2 can follow
clean_goodreads_title(s) ==
    LET match == {i \in 0..Len(s) : MatchesGroup2(s, i)}
    IN IF match /= {}
       THEN strip(SubSeq(s, 1, CHOOSE i \in match : \A k \in match : i <= k))
       ELSE strip(s)

\* where the parenthetical that ends s opens; 0 when s does not end with one
TrailingParenthetical(s) ==
    LET opens == {j \in 1..Len(s) : Count(s, j, Len(s), "(") = Count(s, j, Len(s), ")")}
    IN IF s = <<>> \/ s[Len(s)] /= ")" \/ opens = {} THEN 0
       ELSE CHOOSE j \in opens : \A k \in opens : j >= k

\* s[a..b] holds '#' followed by a digit
ContainsSeriesIndex(s, a, b) ==
    \E h \in a..(b - 1) : s[h] = "#" /\ s[h + 1] \in Digits

\* "If there is a trailing parenthesis that contains '#', strip it.  Strip
\* extra whitespace."
StripSeriesSuffix(s) ==
    LET j == TrailingParenthetical(s)
    IN IF j > 0 /\ ContainsSeriesIndex(s, j, Len(s))
       THEN strip(SubSeq(s, 1, j - 1))
       ELSE strip(s)

InitClean ==
    /\ InitMain
    /\ step = "scraped"
    /\ raw_title \in RawTitles
    /\ cleaned = <<>>
    /\ joined_data = <<>>
    /\ counts = <<0, 0, 0, 0>>

\* cleaned_title = clean_goodreads_title(raw_title)
CleanTitle ==
    /\ step = "scraped"
    /\ cleaned' = clean_goodreads_title(raw_title)
    /\ step' = "cleaned"
    /\ UNCHANGED <<mainVars, raw_title, joined_data, counts>>

NextClean == CleanTitle

SpecClean == InitClean /\ [][NextClean]_vars

\* C13: clean_goodreads_title removes the trailing parenthetical when it
\* holds '#' and digits, trims the result, and returns every other title
\* unchanged apart from trimming; 'The Hunger Games (The Hunger Games, #1)'
\* gives 'The Hunger Games' and 'Plain Title' gives 'Plain Title'
C13_CleanTitle ==
    step = "cleaned" =>
        /\ cleaned = StripSeriesSuffix(raw_title)
        /\ raw_title = HungerGames => cleaned = HungerGamesCleaned
        /\ raw_title = PlainTitle => cleaned = PlainTitle

(***************************************************************************)
(* calculation_visualization: the rating conversion and the comparison.    *)
(* Stored ratings are in tenths (84 is 8.4); a converted movie rating and  *)
(* the two sides of the comparison are in hundredths, so that halving is   *)
(* exact as it is in binary floating point.                                *)
(***************************************************************************)
MaxRows == 2

\* book_rating and movie_rating of the joined rows; NullNum is None
BookRatings == {NullNum, 40, 42}
MovieRatings == {NullNum, 0, 84, 85}

JoinedRows == [book_rating : BookRatings, movie_rating : MovieRatings]

\* a conversion that takes an absent rating for 0
convert_movie_rating_NoneAsZero(movie_rating_10) ==
    IF movie_rating_10 = NullNum THEN 0 ELSE movie_rating_10 * 5

\* movie_rating_10 / 2.0, in hundredths
convert_movie_rating(movie_rating_10) ==
    IF movie_rating_10 = NullNum THEN NullNum ELSE movie_rating_10 * 5

\* book_rating on the scale of the converted movie rating
Hundredths(book_rating) == book_rating * 10

RECURSIVE CountRows(_, _)
\* the for loop of compute_preference_counts; acc is
\* <<books_better, movies_better, ties, total>>
CountRows(rows, acc) ==
    IF rows = <<>> THEN acc
    ELSE LET row == Head(rows)
             book_rating == row.book_rating
             movie_rating_5 == convert_movie_rating(row.movie_rating)
         IN IF book_rating = NullNum \/ movie_rating_5 = NullNum
            THEN CountRows(Tail(rows), acc)
            ELSE IF movie_rating_5 > Hundredths(book_rating)
            THEN CountRows(Tail(rows), <<acc[1], acc[2] + 1, acc[3], acc[4] + 1>>)
            ELSE IF Hundredths(book_rating) > movie_rating_5
            THEN CountRows(Tail(rows), <<acc[1] + 1, acc[2], acc[3], acc[4] + 1>>)
            ELSE CountRows(Tail(rows), <<acc[1], acc[2], acc[3] + 1, acc[4] + 1>>)

compute_preference_counts(rows) == CountRows(rows, <<0, 0, 0, 0>>)

InitAnalysis ==
    /\ InitMain
    /\ step = "joined"
    /\ raw_title = <<>>
    /\ cleaned = <<>>
    /\ joined_data \in SeqsUpTo(JoinedRows, MaxRows)
    /\ counts = <<0, 0, 0, 0>>

\* counts = compute_preference_counts(data)
ComputeCounts ==
    /\ step = "joined"
    /\ counts' = compute_preference_counts(joined_data)
    /\ step' = "counted"
    /\ UNCHANGED <<mainVars, raw_title, cleaned, joined_data>>

NextAnalysis == ComputeCounts

SpecAnalysis == InitAnalysis /\ [][NextAnalysis]_vars

\* the rows that have both ratings
Rated == {i \in 1..Len(joined_data) :
             /\ joined_data[i].book_rating /= NullNum
             /\ joined_data[i].movie_rating /= NullNum}

\* C14: convert_movie_rating halves a present rating (8.4 gives 4.2) and
\* gives absent for absent, never 0; compute_preference_counts compares
\* only the rows that have both ratings, each by book rating against half
\* the movie rating, and leaves the others out
C14_AbsentRatingsExcluded ==
    /\ convert_movie_rating(84) = 420
    /\ convert_movie_rating(NullNum) = NullNum
    /\ \A r \in MovieRatings \ {NullNum} : convert_movie_rating(r) * 2 = r * 10
    /\ step = "counted" =>
          /\ counts[4] = Cardinality(Rated)
          /\ counts[1] = Cardinality({i \in Rated :
                joined_data[i].book_rating * 2 > joined_data[i].movie_rating})
          /\ counts[2] = Cardinality({i \in Rated :
                joined_data[i].book_rating * 2 < joined_data[i].movie_rating})
          /\ counts[3] = Cardinality({i \in Rated :
                joined_data[i].book_rating * 2 = joined_data[i].movie_rating})

\* rows with and without a movie rating have been counted
C14_Witness ==
    /\ step = "counted"
    /\ \E i, j \in 1..Len(joined_data) :
          /\ joined_data[i].movie_rating = NullNum
          /\ joined_data[i].book_rating /= NullNum
          /\ joined_data[j].movie_rating = 84
          /\ joined_data[j].book_rating = 42
    /\ counts = <<0, 0, 1, 1>>

\* C15: OMDb is called for a candidate only after Google Books gave a usable
\* entry for that same candidate; a candidate without one is marked failed
\* and is not looked up in OMDb; and the writes of every candidate are
\* committed before the calls for the next one begin
C15_CallOrdering ==
    /\ pc[Main] = "omdb" =>
          /\ gb_data[Main].res = "dict"
          /\ gb_data[Main].book_title = scraped_title(Main)
    /\ (pc[Main] = "loop" /\ idx[Main] > 1 /\ gb_data[Main].res = "None") =>
          LastTitle(Main) \in Range(db.FailedTitles)
    /\ ((pc[Main] = "loop" /\ ~LoopOver(Main)) \/ pc[Main] \in {"omdb", "insert"}) =>
          ~dirty[Main]

(***************************************************************************)
(* The list get_pending_titles returned to load_batch.                     *)
(***************************************************************************)
\* the place of a title in the order of the title column
TitleRank(t) == CHOOSE i \in 1..Len(TitleOrder) : TitleOrder[i] = t

\* the titles that were pending when load_batch called get_pending_titles
PendingSet(d) == {t \in Range(d.Adaptations) : IsPending(d, t)}

\* load_batch holds the list that get_pending_titles returned from db0
Selected == pc[Main] \in {"loop", "omdb", "insert", "done"}

\* C16 as stated: the list holds at most limit titles in the insertion order
\* of Adaptations (so the same call gives the same list, a smaller limit
\* gives a beginning of it, and it is empty when nothing is pending)
C16_InsertionOrder ==
    Selected =>
        candidate_titles[Main] =
            Limit(FilterSeq(db0[Main].Adaptations, PendingSet(db0[Main])),
                  CandidateLimit(max_new[Main]))

\* C16, amended: the list holds the min(limit, pending) pending titles that
\* come first in ascending order of title, in that order; the same call
\* gives the same list, a smaller limit gives a beginning of it, and it is
\* empty when nothing is pending
C16_TitleOrder ==
    Selected =>
        LET lim == CandidateLimit(max_new[Main])
            got == candidate_titles[Main]
            P == PendingSet(db0[Main])
        IN /\ Len(got) = Min(lim, Cardinality(P))
           /\ Range(got) \subseteq P
           /\ \A i, j \in 1..Len(got) : i < j => TitleRank(got[i]) < TitleRank(got[j])
           /\ \A t \in P \ Range(got) :
                 \A i \in 1..Len(got) : TitleRank(got[i]) < TitleRank(t)
           /\ get_pending_titles(db0[Main], lim) = got
           /\ \A l \in 0..lim : IsPrefix(get_pending_titles(db0[Main], l), got)
           /\ P = {} => got = <<>>

\* a call that returned two titles registered in the other order and left a
\* pending title out
C16_Witness ==
    /\ pc[Main] = "loop"
    /\ idx[Main] = 1
    /\ db0[Main].Adaptations = <<"C", "B", "A">>
    /\ candidate_titles[Main] = <<"A", "B">>
    /\ PendingSet(db0[Main]) = {"A", "B", "C"}

(***************************************************************************)
(* Two runs of main() on the same database file, each with its own         *)
(* connection, after both have connected and found Adaptations filled.     *)
(***************************************************************************)
MaxRegistered == 1

\* Adaptations as earlier scrapes can have left it
Registries == {r \in SeqsUpTo(Titles, MaxRegistered) : NoDuplicates(r)}

InitConc ==
    /\ \E r \in Registries : db = [EmptyDb EXCEPT !.Adaptations = r]
    /\ dirty = [p \in Procs |-> FALSE]
    /\ tx = [p \in Procs |-> EmptyDb]
    /\ pc = [p \in Procs |-> "ready"]
    /\ max_new = [p \in Procs |-> 0]
    /\ candidate_titles = [p \in Procs |-> <<>>]
    /\ idx = [p \in Procs |-> 1]
    /\ inserted = [p \in Procs |-> 0]
    /\ gb_data = [p \in Procs |-> NoBook]
    /\ omdb_data = [p \in Procs |-> NoMovie]
    /\ db0 = [p \in Procs |-> EmptyDb]
    /\ usable = [p \in Procs |-> {}]
    /\ ignored = [p \in Procs |-> 0]
    /\ FunIdle

\* An INSERT of connection p waits for the write lock another connection
\* holds and gives up after the timeout of sqlite3.connect: OperationalError
\* (database is locked) leaves load_batch.  At the top of the loop this is
\* the FailedTitles insert after a failed Google Books request.
Locked(p) ==
    /\ LockedOut(p)
    /\ \/ pc[p] = "loop" /\ ~LoopOver(p)
       \/ pc[p] \in {"omdb", "insert"}
    /\ pc' = [pc EXCEPT ![p] = "raised"]
    /\ UNCHANGED <<db, dirty, tx, max_new, candidate_titles, idx, inserted,
                   gb_data, omdb_data, db0, usable, ignored, funVars>>

NextConc ==
    \E p \in Procs :
        \/ StartBatch(p)
        \/ GoogleBooksStep(p)
        \/ OmdbStep(p)
        \/ InsertStep(p)
        \/ FinishBatch(p)
        \/ Close(p)
        \/ Exit(p)
        \/ Locked(p)

SpecConc == InitConc /\ [][NextConc]_vars

\* the rows of Book_Movie that link the book
LinksOfBook(d, book_id) == {k \in 1..Len(d.Book_Movie) : d.Book_Movie[k].book_id = book_id}

\* C17: when two runs of load_batch interleave and attempt the same pending
\* title, the database still holds no duplicated storage: at most one Books
\* row, one Movies row and one FailedTitles row per title and at most one
\* Book_Movie row per book
C17_NoDuplicatedStorage ==
    /\ \A i, j \in 1..Len(db.Books) :
          db.Books[i].book_title = db.Books[j].book_title => i = j
    /\ \A i, j \in 1..Len(db.Movies) :
          (/\ db.Movies[i].movie_title = db.Movies[j].movie_title
           /\ db.Movies[i].movie_title /= NullTitle) => i = j
    /\ NoDuplicates(db.FailedTitles)
    /\ \A b \in 1..Len(db.Books) : Cardinality(LinksOfBook(db, b)) <= 1

(***************************************************************************)
(* A run of main() that can be killed while load_batch runs.               *)
(***************************************************************************)
\* the process is killed between two steps of load_batch; Exit then drops
\* the connection
Abort(p) ==
    /\ pc[p] \in {"loop", "omdb", "insert"}
    /\ pc' = [pc EXCEPT ![p] = "raised"]
    /\ UNCHANGED <<db, dirty, tx, max_new, candidate_titles, idx, inserted,
                   gb_data, omdb_data, db0, usable, ignored, funVars>>

\* the process is killed inside insert_adaptation, after the Books insert or
\* after the Movies insert and before conn.commit()
AbortInInsert(p) ==
    /\ pc[p] = "insert"
    /\ LET d1 == InsertOrIgnoreBook(View(p), gb_data[p])
           d2 == InsertOrIgnoreMovie(d1, omdb_data[p])
       IN \E d \in {d1, d2} : Write(p, d)
    /\ pc' = [pc EXCEPT ![p] = "raised"]
    /\ UNCHANGED <<max_new, candidate_titles, idx, inserted, gb_data, omdb_data,
                   db0, usable, ignored, funVars>>

NextCrash ==
    \/ Next
    \/ Abort(Main)
    \/ AbortInInsert(Main)

SpecCrash == Init /\ [][NextCrash]_vars

\* C18: whenever a run of load_batch is cut off, what the database file
\* holds has no partial outcome (every Books row is linked to a Movies row
\* and every Movies row to a Books row), and the runs that resume from it
\* store no row twice
C18_CrashRecoverable ==
    /\ \A i \in 1..Len(db.Books) :
          \E k \in 1..Len(db.Book_Movie) :
              /\ db.Book_Movie[k].book_id = i
              /\ db.Book_Movie[k].movie_id \in 1..Len(db.Movies)
    /\ \A j \in 1..Len(db.Movies) :
          \E k \in 1..Len(db.Book_Movie) : db.Book_Movie[k].movie_id = j
    /\ NoDuplicates(db.Adaptations)
    /\ NoDuplicates(db.FailedTitles)
    /\ NoDuplicates(db.Book_Movie)
    /\ NoDuplicates([i \in 1..Len(db.Books) |-> db.Books[i].book_title])

\* every row of every table of d is in e, unchanged and under the same id
OnlyGrows(d, e) ==
    /\ IsPrefix(d.Adaptations, e.Adaptations)
    /\ IsPrefix(d.Books, e.Books)
    /\ IsPrefix(d.Movies, e.Movies)
    /\ IsPrefix(d.Book_Movie, e.Book_Movie)
    /\ IsPrefix(d.FailedTitles, e.FailedTitles)

\* C19: no step of the pipeline modifies or deletes a stored row: every
\* table of the database only grows, also in what the open connection sees,
\* and a fetch for a title that is already stored overwrites nothing
C19_RowsImmutable ==
    [][/\ OnlyGrows(db, db')
       /\ pc'[Main] /= "closed" => OnlyGrows(View(Main), ViewNext)]_vars

\* OMDb returned a title that Movies already held, with another rating, and
\* insert_adaptation has linked the new book to the stored row
C19_Witness ==
    /\ StoredLast
    /\ Len(db.Book_Movie) >= 2
    /\ \E j \in 1..Len(db.Movies) :
          /\ db.Movies[j].movie_title = omdb_data[Main].movie_title
          /\ db.Movies[j].movie_rating /= omdb_data[Main].movie_rating
          /\ db.Book_Movie[Len(db.Book_Movie)].movie_id = j

(***************************************************************************)
(* fetch_joined_data: Book_Movie JOIN Books JOIN Movies, one row for each  *)
(* link whose book_id and movie_id both exist.                             *)
(***************************************************************************)
RECURSIVE JoinLinks(_, _)
JoinLinks(d, links) ==
    IF links = <<>> THEN <<>>
    ELSE LET BM == Head(links)
         IN IF BM.book_id \in 1..Len(d.Books) /\ BM.movie_id \in 1..Len(d.Movies)
            THEN <<[book_title |-> d.Books[BM.book_id].book_title,
                    book_rating |-> d.Books[BM.book_id].book_rating,
                    movie_title |-> d.Movies[BM.movie_id].movie_title,
                    movie_rating |-> d.Movies[BM.movie_id].movie_rating]>>
                 \o JoinLinks(d, Tail(links))
            ELSE JoinLinks(d, Tail(links))

fetch_joined_data(d) == JoinLinks(d, d.Book_Movie)

\* C20: after completed load_batch runs every Books row is referenced by
\* exactly one Book_Movie row, every Book_Movie row references an existing
\* Books row and an existing Movies row, and fetch_joined_data returns
\* every stored book exactly once
C20_LinkIntegrity ==
    BetweenBatches(Main) =>
        /\ \A i \in 1..Len(db.Books) : Cardinality(LinksOfBook(db, i)) = 1
        /\ \A k \in 1..Len(db.Book_Movie) :
              /\ db.Book_Movie[k].book_id \in 1..Len(db.Books)
              /\ db.Book_Movie[k].movie_id \in 1..Len(db.Movies)
        /\ \A i \in 1..Len(db.Books) :
              Cardinality({n \in 1..Len(fetch_joined_data(db)) :
                  fetch_joined_data(db)[n].book_title = db.Books[i].book_title}) = 1

\* FailedTitles rows committed since load_batch was called
NewFailed(p) == Len(db.FailedTitles) - Len(db0[p].FailedTitles)

\* C21: when load_batch returns, its counter inserted is the number of new
\* (Book, Movie) pairs the run committed, and the candidates it attempted
\* are the ones it counted plus the ones it entered in FailedTitles
C21_SummaryAccurate ==
    pc[Main] = "done" =>
        /\ inserted[Main] = NewPairs(Main)
        /\ inserted[Main] = NewBooks(Main)
        /\ Attempted(Main) = inserted[Main] + NewFailed(Main)

\* C22: with the registry unchanged and max_new >= 1, a load_batch that
\* started with titles pending leaves fewer titles pending in the database
\* when it returns, and once repeated runs have left nothing pending every
\* registered title has an outcome
C22_Progress ==
    /\ (/\ pc[Main] = "done"
        /\ max_new[Main] >= 1
        /\ PendingSet(db0[Main]) /= {}
        /\ db.Adaptations = db0[Main].Adaptations) =>
          /\ PendingSet(db) \subseteq PendingSet(db0[Main])
          /\ Cardinality(PendingSet(db)) < Cardinality(PendingSet(db0[Main]))
    /\ (BetweenBatches(Main) /\ get_pending_titles(db, -1) = <<>>) =>
          \A t \in Range(db.Adaptations) : HasOutcome(db, t)

====
